---- MODULE Spec2Model ----
(***************************************************************************)
(* Model of relay-nextjs "wired" pages: the initial-props procedure        *)
(* (server and client branch), the context channel, getWiredProps and the  *)
(* render/effect cycle of the wrapped component.                           *)
(*                                                                         *)
(* Four specifications share the module:                                   *)
(*   SpecServer  - one execution of getServerInitialProps                  *)
(*   SpecClient  - client navigations: getClientInitialProps+getWiredProps *)
(*   SpecRender  - one mounted WiredComponent instance                     *)
(*   SpecChannel - attaching, copying and reading context carriers         *)
(***************************************************************************)
EXTENDS Integers, Sequences, FiniteSets, TLC

(***************************************************************************)
(* Bounds                                                                  *)
(***************************************************************************)
\* number of descriptor slot names a page may be wired with
NumSlots == 3
\* renders after a router change that are counted
RenderCountCap == 2
\* number of client-side navigations (getClientInitialProps calls) explored
MaxNavs == 2

(***************************************************************************)
(* JavaScript values                                                       *)
(***************************************************************************)
Undefined == [type |-> "undefined"]
Null == [type |-> "null"]

\* a plain object is a function from its own enumerable keys to values
EmptyObject == [k \in {} |-> Undefined]

\* obj[key] / obj.key on a plain object: undefined when the key is missing
Get(obj, key) == IF key \in DOMAIN obj THEN obj[key] ELSE Undefined

\* 'key in obj'
HasKey(obj, key) == key \in DOMAIN obj

\* v == null (loose equality: null or undefined)
IsNullish(v) == v = Undefined \/ v = Null

\* {...a, ...b}: later spreads win; spreading null or undefined adds nothing
Spread(a, b) ==
    IF IsNullish(b) THEN a
    ELSE [k \in (DOMAIN a) \cup (DOMAIN b) |-> IF k \in DOMAIN b THEN b[k] ELSE a[k]]

\* obj?.key
OptGet(obj, key) == IF IsNullish(obj) THEN Undefined ELSE Get(obj, key)

\* a ?? b
Coalesce(a, b) == IF IsNullish(a) THEN b ELSE a

(***************************************************************************)
(* Wiring: descriptors, route queries                                      *)
(***************************************************************************)
SlotNames == <<"home", "preloadedQuery", "preloadedQueries", "footer">>
Slots == {SlotNames[i] : i \in 1..NumSlots}

\* Object.entries / Object.keys order of a descriptor map: declaration order
SlotOrder(qs) == SelectSeq(SubSeq(SlotNames, 1, NumSlots), LAMBDA s : s \in qs)

\* the descriptor (GraphQLTaggedNode) wired under a slot
Descriptor(slot) == [descriptor |-> slot]

\* values of the "id" parameter of the route query
RouteIds == {"7", "8"}
\* ctx.query / router.query
RouteQuery(id) == [id |-> id]

defaultVariablesFromContext(ctx) == ctx.query

\* a caller-supplied opts.variablesFromContext: per-slot variables
customVariablesFromContext(ctx, qs) == [k \in qs |-> [slot |-> k, id |-> ctx.query.id]]

\* opts.variablesFromContext ? opts.variablesFromContext(ctx) : Object.fromEntries(...)
ResolveVariablesDefaultOnly(hasVFC, ctx, qs) ==
    [k \in qs |-> defaultVariablesFromContext(ctx)]

ResolveVariables(hasVFC, ctx, qs) ==
    IF hasVFC THEN customVariablesFromContext(ctx, qs)
    ELSE [k \in qs |-> defaultVariablesFromContext(ctx)]

(***************************************************************************)
(* Context channel                                                         *)
(***************************************************************************)
WIRED_CONTEXT == "Symbol(WIRED)"

\* an object with enumerable own properties and non-enumerable symbol slots
PlainCarrier == [enum |-> EmptyObject, hidden |-> EmptyObject]

\* obj[key] on such an object: own properties are found whether enumerable or not
ObjectGet(obj, key) ==
    IF key \in DOMAIN obj.hidden THEN obj.hidden[key] ELSE Get(obj.enum, key)

\* Object.keys(obj), the keys {...obj} copies and JSON.stringify(obj) writes
OwnKeys(obj) == IF IsNullish(obj) THEN {} ELSE DOMAIN obj.enum

\* {...obj}, or obj after a JSON round trip: only the enumerable properties
CopyOf(obj) == [enum |-> obj.enum, hidden |-> EmptyObject]

\* result of a call that raised a TypeError
TypeError == [type |-> "TypeError"]

createWiredServerContextEnumerable(value) ==
    [enum |-> [s \in {WIRED_CONTEXT} |-> value], hidden |-> EmptyObject]

createWiredServerContext(value) ==
    [enum |-> EmptyObject, hidden |-> [s \in {WIRED_CONTEXT} |-> value]]

getWiredServerContext(context) ==
    IF IsNullish(context) THEN Undefined
    ELSE ObjectGet(context, WIRED_CONTEXT)

createWiredClientContext(value) ==
    [enum |-> EmptyObject, hidden |-> [s \in {WIRED_CONTEXT} |-> value]]

getWiredClientContextUnguarded(context) ==
    IF IsNullish(context) THEN TypeError
    ELSE ObjectGet(context, WIRED_CONTEXT)

getWiredClientContext(context) ==
    IF IsNullish(context) THEN Undefined
    ELSE ObjectGet(context, WIRED_CONTEXT)

(***************************************************************************)
(* Data layer: preloaded queries and their sources                         *)
(***************************************************************************)
\* state of the source of a preloaded query
\*   none      - query.source == null
\*   active    - a source that has not yet terminated
\*   completed - the source has signalled complete
\*   errored   - the source has signalled error
SourceStates == {"none", "active", "completed", "errored"}
Settled(src) == src \in {"none", "completed", "errored"}

\* handle returned by loadQuery(env, query, variables, options)
PreloadedQuery(id, env, slot, vars, policy) ==
    [kind |-> "PreloadedQuery", id |-> id, environment |-> env,
     query |-> Descriptor(slot), variables |-> vars, fetchPolicy |-> policy]

(***************************************************************************)
(* Query flush synchronizer                                                *)
(***************************************************************************)
\* promise returned by ensureQueryFlushed right after its executor ran, for a
\* query whose source is in state src (a terminated source replays its
\* terminal event to the new subscriber)
ensureQueryFlushedNoSourcePending(src) ==
    IF src = "none" THEN "pending"
    ELSE IF src = "active" THEN "pending"
    ELSE IF src = "completed" THEN "fulfilled"
    ELSE "rejected"

ensureQueryFlushed(src) ==
    IF src = "none" THEN "fulfilled"
    ELSE IF src = "active" THEN "pending"
    ELSE IF src = "completed" THEN "fulfilled"
    ELSE "rejected"

\* observer { complete: resolve, error: reject } receiving an event; a promise
\* settles at most once
ObserverNext(p, event) ==
    IF p # "pending" THEN p
    ELSE IF event = "complete" THEN "fulfilled" ELSE "rejected"

\* 'await p' lets the async function continue once p has settled
AwaitSkipped(p) == TRUE

AwaitSettled(p) == p \in {"fulfilled", "rejected"}

\* Promise.all: rejects as soon as one member rejects
PromiseAll(ps) ==
    IF \E k \in DOMAIN ps : ps[k] = "rejected" THEN "rejected"
    ELSE IF \E k \in DOMAIN ps : ps[k] = "pending" THEN "pending"
    ELSE "fulfilled"

\* Promise.allSettled over the member promises
PromiseAllSettled(ps) ==
    IF \E k \in DOMAIN ps : ps[k] = "pending" THEN "pending"
    ELSE "fulfilled"

(***************************************************************************)
(* Redirect directive                                                      *)
(***************************************************************************)
Destinations == {"/login", "/home"}
StatusCodes == {301, 302, 303, 307, 308}

\* every shape of Redirect: destination plus optional statusCode / permanent
Redirects ==
    { [k \in {"destination"} |-> d] : d \in Destinations }
    \cup { [destination |-> d, statusCode |-> c] : d \in Destinations, c \in StatusCodes }
    \cup { [destination |-> d, permanent |-> b] : d \in Destinations, b \in BOOLEAN }
    \cup { [destination |-> d, statusCode |-> c, permanent |-> b] :
             d \in Destinations, c \in StatusCodes, b \in BOOLEAN }

RedirectStatusPermanentFirst(redirect) ==
    IF HasKey(redirect, "permanent") THEN (IF redirect.permanent THEN 308 ELSE 307)
    ELSE IF HasKey(redirect, "statusCode") THEN redirect.statusCode
    ELSE 302

\* let statusCode = 302; if ('statusCode' in redirect) ... else if ('permanent' in redirect) ...
RedirectStatus(redirect) ==
    IF HasKey(redirect, "statusCode") THEN redirect.statusCode
    ELSE IF HasKey(redirect, "permanent") THEN (IF redirect.permanent THEN 308 ELSE 307)
    ELSE 302

\* 'redirect' in props
IsRedirectNever(props) == FALSE

IsRedirect(props) == HasKey(props, "redirect")

\* results of opts.serverSideProps(ctx) / opts.clientSideProps(ctx)
UserProps == {EmptyObject, [user |-> "alice"]}
SidePropsResults == UserProps \cup { [redirect |-> r] : r \in Redirects }

\* results of opts.clientSideProps: the client branch reads only the
\* destination of a redirect, so fewer shapes of Redirect are drawn
ClientSidePropsResults ==
    UserProps
    \cup { [redirect |-> r] :
             r \in { x \in Redirects :
                       \/ ~HasKey(x, "statusCode")
                       \/ (x.statusCode = 308 /\ ~HasKey(x, "permanent")) } }

(***************************************************************************)
(* State                                                                   *)
(***************************************************************************)
VARIABLES
    \* wiring (arguments of Wire)
    queries,          \* set of slot names of the descriptor map
    hasVFC,           \* opts.variablesFromContext is supplied
    optsFetchPolicy,  \* opts.fetchPolicy, "" when not supplied
    \* getServerInitialProps
    sPc,              \* position of the async function
    sCtx,             \* NextPageContext of the request
    serverSideProps,  \* awaited result of opts.serverSideProps
    resWrites,        \* ctx.res.writeHead(...).end() calls
    serverEnvs,       \* number of createServerEnvironment calls
    sVariables,       \* resolved variables
    sLoadCalls,       \* loadQuery calls, in order
    sPreloaded,       \* preloadedQueries: slot -> handle
    source,           \* handle id -> state of the handle's source
    flushCalls,       \* number of ensureQueryFlushed calls
    flushes,          \* slot -> state of the promise of ensureQueryFlushed
    flushAll,         \* state of the Promise.allSettled promise
    serverCtxs,       \* number of createWiredServerContext calls
    sResult,          \* value the async function returned
    \* client: bootstrap, getClientInitialProps, getWiredProps
    cPc,              \* "boot" before getInitialPreloadedQuery ran, then "ready"
    window,           \* the global object; undefined on the server
    initialPreloadedQuery, \* result of getInitialPreloadedQuery
    navs,             \* number of getClientInitialProps calls so far
    clientSideProps,  \* result of opts.clientSideProps in the last call
    cProps,           \* props returned by the last call
    routerPushes,     \* number of Router.push calls
    lastPush,         \* destination of the last Router.push
    clientEnvs,       \* number of createClientEnvironment calls
    cLoads,           \* number of loadQuery calls on the client
    cLoadCalls,       \* loadQuery calls of the last procedure that loaded
    clientCtxs,       \* number of createWiredClientContext calls
    cNextId,          \* id of the next handle the data layer creates
    wpPageProps,      \* pageProps of the last getWiredProps call
    wiredProps,       \* result of the last getWiredProps call
    wiredPropsSingle, \* result of the last call of the single-query getWiredProps
    wpInitial,        \* initial preloaded queries passed to the last of these calls
    clientCache,      \* content of the record cache of the client environment
    \* one instance of WiredComponent
    rPhase,           \* "unmounted" or "mounted"
    rProps,           \* props of the instance
    router,           \* value of useRouter(): identity and query
    memo,             \* useMemo cell of queryVariables: deps and value
    queryVariables,   \* queryVariables of the last render
    haveVarsChanged,  \* useState cell of useHaveQueryVariablesChanges
    detectorDeps,     \* deps the detector effect last ran with
    queryReference,   \* per slot: useQueryLoader's query reference state
    hooks,            \* per slot: query reference returned in the last render
    loaderDeps,       \* per slot: deps useQueryLoader's disposing effect last ran with
    undisposed,       \* per slot: useQueryLoader's set of undisposed references
    disposed,         \* handle id -> number of dispose() calls
    loadEffectRan,    \* the load effect has run, so it has a cleanup
    loadedVars,       \* queryVariables the load effect last called loadQuery with
    needsRender,      \* an update is scheduled
    pendingEffects,   \* passive effects of the last render not yet flushed
    output,           \* element returned by the last render
    routerChanged,    \* the router state changed since mount
    rendersSinceChange, \* renders made after the router state first changed
    \* context channel
    chCarrier,        \* the object a context is read from
    chOrigin,         \* how chCarrier came about, and the payload attached to it
    chRead,           \* the last read of chCarrier: reader and result
    chKeys            \* result of the last enumeration of chCarrier's own keys

wiringVars == <<queries, hasVFC, optsFetchPolicy>>
clientVars == <<cPc, window, initialPreloadedQuery, navs,
                clientSideProps, cProps, routerPushes, lastPush, clientEnvs, cLoads,
                cLoadCalls, clientCtxs, cNextId, wpPageProps, wiredProps,
                wiredPropsSingle, wpInitial, clientCache>>
serverVars == <<sPc, sCtx, serverSideProps, resWrites, serverEnvs, sVariables,
                sLoadCalls, sPreloaded, source, flushCalls, flushes, flushAll,
                serverCtxs, sResult>>
renderVars == <<rPhase, rProps, router, memo, queryVariables, haveVarsChanged,
                detectorDeps, queryReference, hooks, loaderDeps, undisposed, disposed,
                loadEffectRan, loadedVars, needsRender, pendingEffects, output,
                routerChanged, rendersSinceChange>>
channelVars == <<chCarrier, chOrigin, chRead, chKeys>>
vars == <<wiringVars, serverVars, clientVars, renderVars, channelVars>>

\* descriptor maps a page may be wired with: the first n slot names
Wirings == { { SlotNames[i] : i \in 1..n } : n \in 0..NumSlots }

WiringInit ==
    /\ queries \in Wirings
    /\ hasVFC \in BOOLEAN
    /\ optsFetchPolicy \in {"", "network-only"}

\* wiring of the specifications that never read opts.fetchPolicy
WiringInitNoPolicy ==
    /\ queries \in Wirings
    /\ hasVFC \in BOOLEAN
    /\ optsFetchPolicy = ""

RenderIdle ==
    /\ rPhase = "unmounted"
    /\ rProps = Undefined
    /\ router = Undefined
    /\ memo = Undefined
    /\ queryVariables = Undefined
    /\ haveVarsChanged = "pending"
    /\ detectorDeps = Undefined
    /\ queryReference = EmptyObject
    /\ hooks = EmptyObject
    /\ loaderDeps = EmptyObject
    /\ undisposed = EmptyObject
    /\ disposed = EmptyObject
    /\ loadEffectRan = FALSE
    /\ loadedVars = Undefined
    /\ needsRender = FALSE
    /\ pendingEffects = FALSE
    /\ output = Undefined
    /\ routerChanged = FALSE
    /\ rendersSinceChange = 0

ClientIdle ==
    /\ cPc = "boot"
    /\ window = Undefined
    /\ initialPreloadedQuery = Null
    /\ navs = 0
    /\ clientSideProps = Undefined
    /\ cProps = Undefined
    /\ routerPushes = 0
    /\ lastPush = Undefined
    /\ clientEnvs = 0
    /\ cLoads = 0
    /\ cLoadCalls = <<>>
    /\ clientCtxs = 0
    /\ cNextId = 1
    /\ wpPageProps = Undefined
    /\ wiredProps = Undefined
    /\ wiredPropsSingle = Undefined
    /\ wpInitial = Undefined
    /\ clientCache = "none"

ChannelIdle ==
    /\ chCarrier = Undefined
    /\ chOrigin = [by |-> "none"]
    /\ chRead = [by |-> "none"]
    /\ chKeys = [done |-> FALSE]

ServerIdle ==
    /\ sPc = "idle"
    /\ sCtx = Undefined
    /\ serverSideProps = Undefined
    /\ resWrites = <<>>
    /\ serverEnvs = 0
    /\ sVariables = Undefined
    /\ sLoadCalls = <<>>
    /\ sPreloaded = EmptyObject
    /\ source = <<>>
    /\ flushCalls = 0
    /\ flushes = EmptyObject
    /\ flushAll = "none"
    /\ serverCtxs = 0
    /\ sResult = Undefined

(***************************************************************************)
(* getServerInitialProps                                                   *)
(***************************************************************************)
\* { ...serverSideProps, __wired__server__context: createWiredServerContext({...}) }
ServerProps(props, variables, qs, preloadedQueries) ==
    Spread(props,
        [k \in {"__wired__server__context"} |->
            createWiredServerContext(
                [variables |-> variables,
                 queries |-> [q \in qs |-> Descriptor(q)],
                 preloadedQueries |-> preloadedQueries])])

\* entry: opts.serverSideProps ? await opts.serverSideProps(ctx) : {}
ServerCall(route, result) ==
    /\ sPc = "idle"
    /\ sCtx' = [query |-> RouteQuery(route)]
    /\ serverSideProps' = result
    /\ sPc' = "gotProps"
    /\ UNCHANGED <<resWrites, serverEnvs, sVariables, sLoadCalls, sPreloaded, source,
                   flushCalls, flushes, flushAll, serverCtxs, sResult>>
    /\ UNCHANGED <<wiringVars, clientVars, renderVars, channelVars>>

\* if ('redirect' in serverSideProps) { ... return { __wired__server__context: {} } }
ServerRedirect ==
    /\ sPc = "gotProps"
    /\ IsRedirect(serverSideProps)
    /\ LET redirect == serverSideProps.redirect
       IN resWrites' = Append(resWrites,
              [statusCode |-> RedirectStatus(redirect), Location |-> redirect.destination])
    /\ sResult' = [k \in {"__wired__server__context"} |-> PlainCarrier]
    /\ sPc' = "done"
    /\ UNCHANGED <<sCtx, serverSideProps, serverEnvs, sVariables, sLoadCalls, sPreloaded,
                   source, flushCalls, flushes, flushAll, serverCtxs>>
    /\ UNCHANGED <<wiringVars, clientVars, renderVars, channelVars>>

\* const env = await opts.createServerEnvironment(ctx, serverSideProps)
ServerCreateEnvironment ==
    /\ sPc = "gotProps"
    /\ ~IsRedirect(serverSideProps)
    /\ serverEnvs' = serverEnvs + 1
    /\ sPc' = "gotEnv"
    /\ UNCHANGED <<sCtx, serverSideProps, resWrites, sVariables, sLoadCalls, sPreloaded,
                   source, flushCalls, flushes, flushAll, serverCtxs, sResult>>
    /\ UNCHANGED <<wiringVars, clientVars, renderVars, channelVars>>

\* variables, loadQuery per slot, ensureQueryFlushed per slot, Promise.allSettled;
\* srcs gives, per slot, the state of the source of the handle loadQuery returns
ServerLoadQueries(srcs) ==
    /\ sPc = "gotEnv"
    /\ LET order == SlotOrder(queries)
           variables == ResolveVariables(hasVFC, sCtx, queries)
           env == [side |-> "server", n |-> serverEnvs]
           idOf == [k \in queries |-> CHOOSE i \in 1..Len(order) : order[i] = k]
           preloadedQueries ==
               [k \in queries |-> PreloadedQuery(idOf[k], env, k, variables[k], "default")]
           fl == [k \in queries |-> ensureQueryFlushed(srcs[k])]
       IN /\ sVariables' = variables
          /\ sLoadCalls' = [i \in 1..Len(order) |->
                 [environment |-> env, query |-> Descriptor(order[i]),
                  variables |-> variables[order[i]], returned |-> i]]
          /\ sPreloaded' = preloadedQueries
          /\ source' = [i \in 1..Len(order) |-> srcs[order[i]]]
          /\ flushCalls' = flushCalls + Len(order)
          /\ flushes' = fl
          /\ flushAll' = PromiseAllSettled(fl)
    /\ sPc' = "awaitFlush"
    /\ UNCHANGED <<sCtx, serverSideProps, resWrites, serverEnvs, serverCtxs, sResult>>
    /\ UNCHANGED <<wiringVars, clientVars, renderVars, channelVars>>

\* the data layer terminates the source of the handle loaded for slot k
SourceEvent(k, event) ==
    /\ k \in DOMAIN sPreloaded
    /\ source[sPreloaded[k].id] = "active"
    /\ source' = [source EXCEPT ![sPreloaded[k].id] =
                     IF event = "complete" THEN "completed" ELSE "errored"]
    /\ flushes' = [flushes EXCEPT ![k] = ObserverNext(@, event)]
    /\ flushAll' = PromiseAllSettled(flushes')
    /\ UNCHANGED <<sPc, sCtx, serverSideProps, resWrites, serverEnvs, sVariables,
                   sLoadCalls, sPreloaded, flushCalls, serverCtxs, sResult>>
    /\ UNCHANGED <<wiringVars, clientVars, renderVars, channelVars>>

\* continuation of 'await Promise.allSettled(...)': createWiredServerContext, return
\* (an await on a rejected promise throws out of the async function)
ServerReturn ==
    /\ sPc = "awaitFlush"
    /\ AwaitSettled(flushAll)
    /\ IF flushAll # "rejected"
       THEN /\ serverCtxs' = serverCtxs + 1
            /\ sResult' = ServerProps(serverSideProps, sVariables, queries, sPreloaded)
            /\ sPc' = "done"
       ELSE /\ sPc' = "thrown"
            /\ UNCHANGED <<serverCtxs, sResult>>
    /\ UNCHANGED <<sCtx, serverSideProps, resWrites, serverEnvs, sVariables, sLoadCalls,
                   sPreloaded, source, flushCalls, flushes, flushAll>>
    /\ UNCHANGED <<wiringVars, clientVars, renderVars, channelVars>>

ServerInit == WiringInitNoPolicy /\ ServerIdle /\ ClientIdle /\ RenderIdle /\ ChannelIdle

ServerNext ==
    \/ \E route \in RouteIds, result \in SidePropsResults : ServerCall(route, result)
    \/ ServerRedirect
    \/ ServerCreateEnvironment
    \/ \E srcs \in [queries -> SourceStates] : ServerLoadQueries(srcs)
    \/ \E k \in Slots, event \in {"complete", "error"} : SourceEvent(k, event)
    \/ ServerReturn

SpecServer == ServerInit /\ [][ServerNext]_vars

(***************************************************************************)
(* Client: serialized state, getInitialPreloadedQuery                      *)
(***************************************************************************)
\* values the server-rendering host may have put in window.__wired__
SerializedStates(qs, vfc) ==
    { [k \in {"records"} |-> "records"] }
    \cup { [records |-> "records",
            queries |-> [q \in qs |-> Descriptor(q)],
            variables |-> ResolveVariables(vfc, [query |-> RouteQuery(r)], qs)] :
           r \in RouteIds }

getWiredSerializedStateEmptyDefault(win) ==
    Coalesce(OptGet(win, "__wired__"),
             [records |-> "records", queries |-> EmptyObject, variables |-> EmptyObject])

\* (window as WiredWindow)?.__wired__
getWiredSerializedState(win) == OptGet(win, "__wired__")

\* createClientEnvironment() is idempotent: every call yields the same environment
ClientEnvironment == [side |-> "client", n |-> 1]

\* record cache of the environment after a createClientEnvironment() call. The
\* function is supplied by the caller: its first call builds the store, and
\* whether it builds it from the records of the serialized state (imports) is
\* the caller's choice; later calls return the same environment.
createClientEnvironment(cache, win, imports) ==
    IF cache # "none" THEN cache
    ELSE IF imports /\ HasKey(getWiredSerializedState(win), "records")
         THEN "records"
         ELSE "empty"

InitialLoadOptionsNetworkOnly == [fetchPolicy |-> "network-only"]

\* options of the loads getInitialPreloadedQuery issues
InitialLoadOptions == [fetchPolicy |-> "store-or-network"]

\* the handles Object.entries(descriptors).map(... loadQuery(env, query, variables[key], {fetchPolicy}))
\* creates, the first of them with id firstId
LoadAll(qs, env, variables, policy, firstId) ==
    LET order == SlotOrder(qs)
        idOf == [k \in qs |-> firstId - 1 + CHOOSE i \in 1..Len(order) : order[i] = k]
    IN [k \in qs |-> PreloadedQuery(idOf[k], env, k, variables[k], policy)]

\* the loadQuery calls made by LoadAll, in order
\* (cache is the content of the environment's record cache when they are made)
LoadCallsOf(qs, env, variables, policy, firstId, cache) ==
    LET order == SlotOrder(qs)
    IN [i \in 1..Len(order) |->
           [environment |-> env, query |-> Descriptor(order[i]),
            variables |-> variables[order[i]], fetchPolicy |-> policy,
            returned |-> firstId - 1 + i, cache |-> cache]]

\* the server-rendering host's script writes the serialized state into the
\* global slot after the app module started
WindowWrite(state) ==
    /\ cPc = "ready"
    /\ window # Undefined
    /\ ~HasKey(window, "__wired__")
    /\ window' = [k \in {"__wired__"} |-> state]
    /\ UNCHANGED <<cPc, initialPreloadedQuery, navs, clientSideProps, cProps,
                   routerPushes, lastPush, clientEnvs, cLoads, cLoadCalls, clientCtxs,
                   cNextId, wpPageProps, wiredProps, wiredPropsSingle, wpInitial,
                   clientCache>>
    /\ UNCHANGED <<wiringVars, serverVars, renderVars, channelVars>>

\* getInitialPreloadedQuery(opts), run once when the app module starts; imports
\* tells whether the caller's createClientEnvironment imports the records
ClientBootstrap(imports) ==
    /\ cPc = "boot"
    /\ cPc' = "ready"
    /\ LET serializedState == getWiredSerializedState(window)
       IN IF window = Undefined
             \/ IsNullish(serializedState)
             \/ IsNullish(Get(serializedState, "queries"))
          THEN /\ initialPreloadedQuery' = Null
               /\ UNCHANGED <<clientEnvs, cLoads, cLoadCalls, cNextId, clientCache>>
          ELSE LET qs == DOMAIN serializedState.queries
                   cache == createClientEnvironment(clientCache, window, imports)
               IN /\ clientEnvs' = clientEnvs + 1
                  /\ clientCache' = cache
                  /\ initialPreloadedQuery' =
                         LoadAll(qs, ClientEnvironment, serializedState.variables,
                                 InitialLoadOptions.fetchPolicy, cNextId)
                  /\ cLoadCalls' =
                         LoadCallsOf(qs, ClientEnvironment, serializedState.variables,
                                     InitialLoadOptions.fetchPolicy, cNextId, cache)
                  /\ cLoads' = cLoads + Cardinality(qs)
                  /\ cNextId' = cNextId + Cardinality(qs)
    /\ UNCHANGED <<window, navs, clientSideProps, cProps, routerPushes, lastPush,
                   clientCtxs, wpPageProps, wiredProps, wiredPropsSingle, wpInitial>>
    /\ UNCHANGED <<wiringVars, serverVars, renderVars, channelVars>>

(***************************************************************************)
(* getClientInitialProps                                                   *)
(***************************************************************************)
\* opts.fetchPolicy || 'store-and-network'
ClientFetchPolicy(policy) == IF policy = "" THEN "store-and-network" ELSE policy

ClientNavigate(route, result, imports) ==
    /\ cPc = "ready"
    /\ window # Undefined
    /\ navs < MaxNavs
    /\ navs' = navs + 1
    /\ clientSideProps' = result
    /\ IF IsRedirect(result)
       THEN /\ routerPushes' = routerPushes + 1
            /\ lastPush' = result.redirect.destination
            /\ cProps' = EmptyObject
            /\ UNCHANGED <<clientEnvs, cLoads, cLoadCalls, clientCtxs, cNextId,
                           clientCache>>
       ELSE LET ctx == [query |-> RouteQuery(route)]
                variables == ResolveVariables(hasVFC, ctx, queries)
                policy == ClientFetchPolicy(optsFetchPolicy)
                preloadedQueries ==
                    LoadAll(queries, ClientEnvironment, variables, policy, cNextId)
                cache == createClientEnvironment(clientCache, window, imports)
            IN /\ clientEnvs' = clientEnvs + 1
               /\ clientCache' = cache
               /\ cLoadCalls' =
                      LoadCallsOf(queries, ClientEnvironment, variables, policy, cNextId,
                                  cache)
               /\ cLoads' = cLoads + Cardinality(queries)
               /\ cNextId' = cNextId + Cardinality(queries)
               /\ clientCtxs' = clientCtxs + 1
               /\ cProps' = Spread(result,
                      [k \in {"__wired__client__context"} |->
                          createWiredClientContext(preloadedQueries)])
               /\ UNCHANGED <<routerPushes, lastPush>>
    /\ UNCHANGED <<cPc, window, initialPreloadedQuery, wpPageProps, wiredProps,
                   wiredPropsSingle, wpInitial>>
    /\ UNCHANGED <<wiringVars, serverVars, renderVars, channelVars>>

(***************************************************************************)
(* getWiredProps                                                           *)
(***************************************************************************)
getWiredPropsCSNNoServer(pageProps, initial) ==
    LET serverContext == getWiredServerContext(Get(pageProps, "__wired__server__context"))
        clientContext == getWiredClientContext(Get(pageProps, "__wired__client__context"))
        CSN == IsNullish(serverContext)
        preloadedQueries ==
            Coalesce(OptGet(clientContext, "preloadedQueries"),
                Coalesce(OptGet(serverContext, "preloadedQueries"), initial))
    IN <<Spread([k \in {"CSN"} |-> CSN], preloadedQueries),
         OptGet(serverContext, "environment")>>

\* [{ CSN, ...preloadedQueries }, serverContext?.environment]
getWiredProps(pageProps, initial) ==
    LET serverContext == getWiredServerContext(Get(pageProps, "__wired__server__context"))
        clientContext == getWiredClientContext(Get(pageProps, "__wired__client__context"))
        CSN == ~IsNullish(clientContext)
        preloadedQueries ==
            Coalesce(OptGet(clientContext, "preloadedQueries"),
                Coalesce(OptGet(serverContext, "preloadedQueries"), initial))
    IN <<Spread([k \in {"CSN"} |-> CSN], preloadedQueries),
         OptGet(serverContext, "environment")>>

\* the single-query variant: { CSN, ...preloadedQueries }, where the fallback
\* is { preloadedQuery: initialPreloadedQuery }
getWiredPropsSingle(pageProps, initial) ==
    LET serverContext == getWiredServerContext(Get(pageProps, "__wired__server__context"))
        clientContext == getWiredClientContext(Get(pageProps, "__wired__client__context"))
        CSN == ~IsNullish(clientContext)
        preloadedQueries ==
            Coalesce(OptGet(clientContext, "preloadedQueries"),
                Coalesce(OptGet(serverContext, "preloadedQueries"),
                    [k \in {"preloadedQuery"} |-> initial]))
    IN Spread([k \in {"CSN"} |-> CSN], preloadedQueries)

\* page props as the server branch returns them for this wiring
ServerPagePropsFor(route) ==
    LET variables == ResolveVariables(hasVFC, [query |-> RouteQuery(route)], queries)
    IN ServerProps(EmptyObject, variables, queries,
           LoadAll(queries, [side |-> "server", n |-> 1], variables, "default", 1))

\* server page props after the host serialized them for hydration: the
\* non-enumerable context is gone
HydratedPageProps == [k \in {"__wired__server__context"} |-> PlainCarrier]

\* page props the app can be rendered with
PagePropsInputs ==
    {HydratedPageProps}
    \cup { ServerPagePropsFor(r) : r \in RouteIds }
    \cup (IF cProps = Undefined THEN {}
          ELSE {cProps} \cup { Spread(ServerPagePropsFor(r), cProps) : r \in RouteIds })

\* the app renders a page: getWiredProps(pageProps, initialPreloadedQuery)
GetWiredProps(pageProps) ==
    /\ cPc = "ready"
    /\ wpPageProps' = pageProps
    /\ wpInitial' = initialPreloadedQuery
    /\ wiredProps' = getWiredProps(pageProps, initialPreloadedQuery)
    /\ wiredPropsSingle' = Undefined
    /\ UNCHANGED <<cPc, window, initialPreloadedQuery, navs, clientSideProps, cProps,
                   routerPushes, lastPush, clientEnvs, cLoads, cLoadCalls, clientCtxs,
                   cNextId, clientCache>>
    /\ UNCHANGED <<wiringVars, serverVars, renderVars, channelVars>>

\* initial preloaded query of an app that uses the single-query variant
InitialSingleInputs ==
    IF initialPreloadedQuery = Null THEN {Null}
    ELSE { initialPreloadedQuery[k] : k \in DOMAIN initialPreloadedQuery }

\* the app renders a page with the single-query getWiredProps
GetWiredPropsSingle(pageProps, initial) ==
    /\ cPc = "ready"
    /\ wpPageProps' = pageProps
    /\ wpInitial' = initial
    /\ wiredPropsSingle' = getWiredPropsSingle(pageProps, initial)
    /\ wiredProps' = Undefined
    /\ UNCHANGED <<cPc, window, initialPreloadedQuery, navs, clientSideProps, cProps,
                   routerPushes, lastPush, clientEnvs, cLoads, cLoadCalls, clientCtxs,
                   cNextId, clientCache>>
    /\ UNCHANGED <<wiringVars, serverVars, renderVars, channelVars>>

ClientInit ==
    /\ WiringInit
    /\ ServerIdle
    /\ RenderIdle
    /\ ChannelIdle
    /\ cPc = "boot"
    /\ window \in {Undefined, EmptyObject}
           \cup { [k \in {"__wired__"} |-> st] : st \in SerializedStates(queries, hasVFC) }
    /\ initialPreloadedQuery = Null
    /\ navs = 0
    /\ clientSideProps = Undefined
    /\ cProps = Undefined
    /\ routerPushes = 0
    /\ lastPush = Undefined
    /\ clientEnvs = 0
    /\ cLoads = 0
    /\ cLoadCalls = <<>>
    /\ clientCtxs = 0
    /\ cNextId = 1
    /\ wpPageProps = Undefined
    /\ wiredProps = Undefined
    /\ wiredPropsSingle = Undefined
    /\ wpInitial = Undefined
    /\ clientCache = "none"

ClientNext ==
    \/ \E imports \in BOOLEAN : ClientBootstrap(imports)
    \/ \E state \in SerializedStates(queries, hasVFC) : WindowWrite(state)
    \/ \E route \in RouteIds, result \in ClientSidePropsResults,
          imports \in (IF clientCache = "none" THEN BOOLEAN ELSE {FALSE}) :
           ClientNavigate(route, result, imports)
    \/ \E pageProps \in PagePropsInputs : GetWiredProps(pageProps)
    \/ \E pageProps \in PagePropsInputs, initial \in InitialSingleInputs :
           GetWiredPropsSingle(pageProps, initial)

SpecClient == ClientInit /\ [][ClientNext]_vars

(***************************************************************************)
(* WiredComponent: one mounted instance                                    *)
(***************************************************************************)
\* smallest identity not in use, counting from n; the i-th such identity
RECURSIVE NthFree(_, _, _)
NthFree(used, i, n) ==
    IF n \notin used
    THEN (IF i = 1 THEN n ELSE NthFree(used, i - 1, n + 1))
    ELSE NthFree(used, i, n + 1)

\* useQueryLoader's initialNullQueryReferenceState
NullRef == [kind |-> "NullQueryReference"]

\* queryReference.kind === 'NullQueryReference' ? null : queryReference
ReturnedRef(ref) == IF ref = NullRef THEN Null ELSE ref
InternalRef(v) == IF v = Null THEN NullRef ELSE v

\* ids of the preloaded query handles among a set of values
IdsOf(vals) == { v.id : v \in { x \in vals : HasKey(x, "id") } }
Range(f) == { f[x] : x \in DOMAIN f }
\* the preloaded queries carried by the props of the instance
PropQueries(props) == { props[k] : k \in (DOMAIN props) \ {"CSN"} }

\* Set.prototype.add on an insertion-ordered set
AddToSet(set, x) == IF x \in Range(set) THEN set ELSE Append(set, x)

\* useQueryLoader's effect on [queryReference]: walk the undisposed set in
\* insertion order, deleting and disposing every reference before the
\* committed one
DropStale(set, committed) ==
    LET hits == { i \in 1..Len(set) : set[i] = committed }
        stop == IF hits = {} THEN Len(set) + 1
                ELSE CHOOSE i \in hits : \A j \in hits : i <= j
    IN [remaining |-> SubSeq(set, stop, Len(set)),
        disposedNow |-> { set[i] : i \in 1..(stop - 1) } \ {NullRef}]

\* return haveVarsChanged === 'pending' ? false : haveVarsChanged
useHaveQueryVariablesChanges(state) == IF state = "pending" THEN FALSE ELSE state = "true"

DetectorUpdateResets(current) == "false"

\* setVarsChanged((current) => current === 'pending' ? false : true)
DetectorUpdate(current) == IF current = "pending" THEN "false" ELSE "true"

\* reference equality of two queryVariables objects
SameRef(a, b) == a # Undefined /\ b # Undefined /\ a.ref = b.ref

UseSuspenseOnlyCSN(csn, changed) == csn

\* if (props.CSN || haveQueryVarsChanged)
UseSuspense(csn, changed) == csn \/ changed

IndexKeys == <<"0", "1", "2", "3", "4", "5">>
\* {...array}: the elements under their indices
ArraySpread(arr) ==
    [k \in { IndexKeys[i] : i \in 1..Len(arr) } |->
        arr[CHOOSE i \in 1..Len(arr) : IndexKeys[i] = k]]

\* the element WiredComponent returns
WiredOutput(props, changed, hks) ==
    LET order == SlotOrder(DOMAIN hks)
        wrapped == UseSuspense(props.CSN, changed)
    IN [errorBoundary |-> wrapped, suspense |-> wrapped,
        props |-> Spread(props, ArraySpread([i \in 1..Len(order) |-> hks[order[i]]]))]

LoadVariablesEmpty(qv, k) == EmptyObject

\* the argument of loadQuery in the load effect: queryVariables[key]
LoadVariables(qv, k) == qv.vars[k]

MemoVariablesOnce(cell, rtr) ==
    IF cell = Undefined
    THEN [deps |-> rtr.id,
          value |-> [ref |-> rtr.id, vars |-> ResolveVariables(hasVFC, rtr, queries)]]
    ELSE cell

\* useMemo(() => variables, [router])
MemoVariables(cell, rtr) ==
    IF cell = Undefined \/ cell.deps # rtr.id
    THEN [deps |-> rtr.id,
          value |-> [ref |-> rtr.id, vars |-> ResolveVariables(hasVFC, rtr, queries)]]
    ELSE cell

\* one execution of the function body of WiredComponent
RenderBody(props, rtr, cell, qref, hvc) ==
    /\ memo' = MemoVariables(cell, rtr)
    /\ queryVariables' = memo'.value
    /\ hooks' = [k \in queries |-> ReturnedRef(qref[k])]
    /\ output' = WiredOutput(props, useHaveQueryVariablesChanges(hvc), hooks')
    /\ needsRender' = FALSE
    /\ pendingEffects' = TRUE

\* props as getWiredProps hands them over: CSN plus the preloaded queries
InstanceProps(csn, seeded, route) ==
    Spread([k \in {"CSN"} |-> csn],
        IF seeded
        THEN LoadAll(queries, ClientEnvironment,
                 ResolveVariables(hasVFC, [query |-> RouteQuery(route)], queries),
                 "store-or-network", 1)
        ELSE Null)

\* the instance is created and rendered for the first time
Mount(csn, seeded, route) ==
    /\ rPhase = "unmounted"
    /\ rPhase' = "mounted"
    /\ LET props == InstanceProps(csn, seeded, route)
           rtr == [id |-> 0, query |-> RouteQuery(route)]
           \* useQueryLoader(query, props.preloadedQuery)
           seed == Coalesce(Get(props, "preloadedQuery"), NullRef)
           qref == [k \in queries |-> seed]
       IN /\ rProps' = props
          /\ router' = rtr
          /\ queryReference' = qref
          /\ undisposed' = [k \in queries |-> <<seed>>]
          /\ disposed' = [i \in IdsOf(PropQueries(props)) |-> 0]
          /\ RenderBody(props, rtr, Undefined, qref, "pending")
    /\ haveVarsChanged' = "pending"
    /\ detectorDeps' = Undefined
    /\ loaderDeps' = EmptyObject
    /\ loadEffectRan' = FALSE
    /\ loadedVars' = Undefined
    /\ routerChanged' = FALSE
    /\ rendersSinceChange' = 0
    /\ UNCHANGED <<wiringVars, serverVars, clientVars, channelVars>>

\* a scheduled update re-renders the instance
Render ==
    /\ rPhase = "mounted"
    /\ needsRender
    /\ ~pendingEffects
    /\ RenderBody(rProps, router, memo, queryReference, haveVarsChanged)
    /\ rendersSinceChange' =
           IF routerChanged /\ rendersSinceChange < RenderCountCap
           THEN rendersSinceChange + 1 ELSE rendersSinceChange
    /\ UNCHANGED <<rPhase, rProps, router, haveVarsChanged, detectorDeps, queryReference,
                   loaderDeps, undisposed, disposed, loadEffectRan, loadedVars,
                   routerChanged>>
    /\ UNCHANGED <<wiringVars, serverVars, clientVars, channelVars>>

\* the passive effects of the last render: cleanups first, then the effects in
\* hook order (useQueryLoader's per slot, the load effect, the detector's)
FlushEffects ==
    /\ rPhase = "mounted"
    /\ pendingEffects
    /\ LET order == SlotOrder(queries)
           pos == [k \in queries |-> CHOOSE i \in 1..Len(order) : order[i] = k]
           \* cleanup of the load effect: hooks.forEach(disposeQuery)
           cleaned == [k \in queries |->
                          IF loadEffectRan THEN AddToSet(undisposed[k], NullRef)
                          ELSE undisposed[k]]
           committed == [k \in queries |-> InternalRef(hooks[k])]
           stale == [k \in queries |->
                        IF ~HasKey(loaderDeps, k) \/ loaderDeps[k] # committed[k]
                        THEN DropStale(cleaned[k], committed[k])
                        ELSE [remaining |-> cleaned[k], disposedNow |-> {}]]
           disposedNow == UNION { stale[k].disposedNow : k \in queries }
           kept == UNION { Range(stale[k].remaining) : k \in queries }
           used == IdsOf(kept \cup Range(hooks) \cup PropQueries(rProps) \cup disposedNow)
           \* the load effect: hooks.forEach(loadQuery(queryVariables[key]))
           loaded == [k \in queries |->
                         PreloadedQuery(NthFree(used, pos[k], 1), ClientEnvironment, k,
                                        LoadVariables(queryVariables, k), "default")]
           times(id) == Cardinality({ k \in queries :
                                        id \in IdsOf(stale[k].disposedNow) })
       IN /\ undisposed' = [k \in queries |-> Append(stale[k].remaining, loaded[k])]
          /\ queryReference' = loaded
          /\ loaderDeps' = committed
          /\ disposed' = [i \in used \cup IdsOf(Range(loaded)) |->
                             IF i \in used /\ HasKey(disposed, i)
                             THEN disposed[i] + times(i) ELSE times(i)]
    /\ loadEffectRan' = TRUE
    /\ loadedVars' = queryVariables
    /\ IF SameRef(detectorDeps, queryVariables)
       THEN UNCHANGED haveVarsChanged
       ELSE haveVarsChanged' = DetectorUpdate(haveVarsChanged)
    /\ detectorDeps' = queryVariables
    /\ needsRender' = (needsRender \/ queryReference' # queryReference
                                   \/ haveVarsChanged' # haveVarsChanged)
    /\ pendingEffects' = FALSE
    /\ UNCHANGED <<rPhase, rProps, router, memo, queryVariables, hooks, output,
                   routerChanged, rendersSinceChange>>
    /\ UNCHANGED <<wiringVars, serverVars, clientVars, channelVars>>

\* the new router object gets the smallest identity no hook cell still holds
\* the router state changes (shallow: same page props; otherwise the page
\* props come from a client-side navigation); the instance is re-rendered
RouterChange(route, shallow) ==
    /\ rPhase = "mounted"
    /\ LET inUse == {memo.deps, queryVariables.ref}
                    \cup (IF detectorDeps = Undefined THEN {} ELSE {detectorDeps.ref})
       IN router' = [id |-> NthFree(inUse, 1, 0), query |-> RouteQuery(route)]
    /\ rProps' = IF shallow THEN rProps ELSE [rProps EXCEPT !.CSN = TRUE]
    /\ needsRender' = TRUE
    /\ routerChanged' = TRUE
    /\ UNCHANGED <<rPhase, memo, queryVariables, haveVarsChanged, detectorDeps,
                   queryReference, hooks, loaderDeps, undisposed, disposed, loadEffectRan,
                   loadedVars, pendingEffects, output, rendersSinceChange>>
    /\ UNCHANGED <<wiringVars, serverVars, clientVars, channelVars>>

\* the instance unmounts: useQueryLoader disposes every remaining reference
Unmount ==
    /\ rPhase = "mounted"
    /\ ~pendingEffects
    /\ rPhase' = "unmounted"
    /\ LET times(id) == Cardinality({ k \in queries : id \in IdsOf(Range(undisposed[k])) })
           ids == IdsOf(PropQueries(rProps) \cup UNION { Range(undisposed[k]) : k \in queries })
       IN disposed' = [i \in ids |->
                          (IF HasKey(disposed, i) THEN disposed[i] ELSE 0) + times(i)]
    /\ router' = Undefined
    /\ memo' = Undefined
    /\ queryVariables' = Undefined
    /\ haveVarsChanged' = "pending"
    /\ detectorDeps' = Undefined
    /\ queryReference' = EmptyObject
    /\ hooks' = EmptyObject
    /\ loaderDeps' = EmptyObject
    /\ undisposed' = EmptyObject
    /\ loadEffectRan' = FALSE
    /\ loadedVars' = Undefined
    /\ needsRender' = FALSE
    /\ pendingEffects' = FALSE
    /\ output' = Undefined
    /\ routerChanged' = FALSE
    /\ rendersSinceChange' = 0
    /\ UNCHANGED rProps
    /\ UNCHANGED <<wiringVars, serverVars, clientVars, channelVars>>

RenderInit == WiringInitNoPolicy /\ ServerIdle /\ ClientIdle /\ RenderIdle /\ ChannelIdle

RenderNext ==
    \/ \E csn \in BOOLEAN, seeded \in BOOLEAN, route \in RouteIds : Mount(csn, seeded, route)
    \/ Render
    \/ FlushEffects
    \/ \E route \in RouteIds, shallow \in BOOLEAN : RouterChange(route, shallow)
    \/ Unmount

SpecRender == RenderInit /\ [][RenderNext]_vars

(***************************************************************************)
(* Context channel: attach, copy, read, enumerate                          *)
(***************************************************************************)
\* payloads getServerInitialProps attaches for this wiring
ServerPayloads ==
    { LET variables == ResolveVariables(hasVFC, [query |-> RouteQuery(r)], queries)
      IN [variables |-> variables,
          queries |-> [q \in queries |-> Descriptor(q)],
          preloadedQueries |->
              LoadAll(queries, [side |-> "server", n |-> 1], variables, "default", 1)] :
      r \in RouteIds }

\* payloads getClientInitialProps attaches for this wiring
ClientPayloads ==
    { LoadAll(queries, ClientEnvironment,
              ResolveVariables(hasVFC, [query |-> RouteQuery(r)], queries),
              ClientFetchPolicy(""), 1) :
      r \in RouteIds }

\* values a context may be read from that no attach produced
ForeignCarriers ==
    {Undefined, Null, PlainCarrier,
     [enum |-> [k \in {"title"} |-> "t"], hidden |-> EmptyObject]}

\* createWiredServerContext(payload)
ChannelAttachServer(payload) ==
    /\ chCarrier' = createWiredServerContext(payload)
    /\ chOrigin' = [by |-> "server", payload |-> payload]
    /\ chRead' = [by |-> "none"]
    /\ chKeys' = [done |-> FALSE]
    /\ UNCHANGED <<wiringVars, serverVars, clientVars, renderVars>>

\* createWiredClientContext(payload)
ChannelAttachClient(payload) ==
    /\ chCarrier' = createWiredClientContext(payload)
    /\ chOrigin' = [by |-> "client", payload |-> payload]
    /\ chRead' = [by |-> "none"]
    /\ chKeys' = [done |-> FALSE]
    /\ UNCHANGED <<wiringVars, serverVars, clientVars, renderVars>>

\* the page props carry a value that was not produced by attach
ChannelForeign(carrier) ==
    /\ chCarrier' = carrier
    /\ chOrigin' = [by |-> "foreign"]
    /\ chRead' = [by |-> "none"]
    /\ chKeys' = [done |-> FALSE]
    /\ UNCHANGED <<wiringVars, serverVars, clientVars, renderVars>>

\* the carrier is spread or serialized and parsed back
ChannelCopy ==
    /\ chOrigin.by \in {"server", "client"}
    /\ chCarrier' = CopyOf(chCarrier)
    /\ chOrigin' = [by |-> "copy"]
    /\ chRead' = [by |-> "none"]
    /\ chKeys' = [done |-> FALSE]
    /\ UNCHANGED <<wiringVars, serverVars, clientVars, renderVars>>

\* getWiredServerContext(chCarrier)
ChannelReadServer ==
    /\ chOrigin.by # "none"
    /\ chRead' = [by |-> "server", result |-> getWiredServerContext(chCarrier)]
    /\ UNCHANGED <<chCarrier, chOrigin, chKeys>>
    /\ UNCHANGED <<wiringVars, serverVars, clientVars, renderVars>>

\* getWiredClientContext(chCarrier)
ChannelReadClient ==
    /\ chOrigin.by # "none"
    /\ chRead' = [by |-> "client", result |-> getWiredClientContext(chCarrier)]
    /\ UNCHANGED <<chCarrier, chOrigin, chKeys>>
    /\ UNCHANGED <<wiringVars, serverVars, clientVars, renderVars>>

\* Object.keys(chCarrier)
ChannelEnumerate ==
    /\ chOrigin.by # "none"
    /\ chKeys' = [done |-> TRUE, keys |-> OwnKeys(chCarrier)]
    /\ UNCHANGED <<chCarrier, chOrigin, chRead>>
    /\ UNCHANGED <<wiringVars, serverVars, clientVars, renderVars>>

ChannelInit == WiringInitNoPolicy /\ ServerIdle /\ ClientIdle /\ RenderIdle /\ ChannelIdle

ChannelNext ==
    \/ \E payload \in ServerPayloads : ChannelAttachServer(payload)
    \/ \E payload \in ClientPayloads : ChannelAttachClient(payload)
    \/ \E carrier \in ForeignCarriers : ChannelForeign(carrier)
    \/ ChannelCopy
    \/ ChannelReadServer
    \/ ChannelReadClient
    \/ ChannelEnumerate

SpecChannel == ChannelInit /\ [][ChannelNext]_vars

(***************************************************************************)
(* Properties of getServerInitialProps (checked under SpecServer)          *)
(***************************************************************************)
SourceOf(k) == source[sPreloaded[k].id]
ServerContextOf(props) == getWiredServerContext(Get(props, "__wired__server__context"))

\* C1: flushAll never rejects (nor makes the procedure throw); it is resolved
\* only when every query with a source has completed or errored, and it is
\* resolved as soon as all of them have.
FlushAllSettlesAll ==
    /\ flushAll # "rejected"
    /\ sPc # "thrown"
    /\ flushAll = "fulfilled" => \A k \in DOMAIN sPreloaded : Settled(SourceOf(k))
    /\ flushAll = "pending" => \E k \in DOMAIN sPreloaded : SourceOf(k) = "active"

\* C1 witness: flushAll resolved over one failed, one completed and one
\* source-less query
FlushAllMixedResolved ==
    /\ flushAll = "fulfilled"
    /\ \E k \in DOMAIN flushes : flushes[k] = "rejected" /\ SourceOf(k) = "errored"
    /\ \E k \in DOMAIN flushes : SourceOf(k) = "completed"
    /\ \E k \in DOMAIN flushes : SourceOf(k) = "none"

\* C2 (as stated): the single-query flush is resolved when the query has no
\* source, pending while the source is active, resolved when the source
\* completed and resolved, not rejected, when the source errored.
FlushResolvesOnError ==
    \A k \in DOMAIN flushes :
        /\ SourceOf(k) = "none" => flushes[k] = "fulfilled"
        /\ SourceOf(k) = "active" => flushes[k] = "pending"
        /\ SourceOf(k) = "completed" => flushes[k] = "fulfilled"
        /\ SourceOf(k) = "errored" => flushes[k] = "fulfilled"

\* C2 (amended): as above, but the single-query flush is rejected when the
\* source errored.
FlushRejectsOnError ==
    \A k \in DOMAIN flushes :
        /\ SourceOf(k) = "none" => flushes[k] = "fulfilled"
        /\ SourceOf(k) = "active" => flushes[k] = "pending"
        /\ SourceOf(k) = "completed" => flushes[k] = "fulfilled"
        /\ SourceOf(k) = "errored" => flushes[k] = "rejected"

\* C2 witness: flushes of a source-less, a completed and an errored query
FlushErroredRejected ==
    /\ \E k \in DOMAIN flushes : SourceOf(k) = "errored" /\ flushes[k] = "rejected"
    /\ \E k \in DOMAIN flushes : SourceOf(k) = "none" /\ flushes[k] = "fulfilled"
    /\ \E k \in DOMAIN flushes : SourceOf(k) = "completed" /\ flushes[k] = "fulfilled"

\* C3: the server context is created and the props are returned only after
\* every preloaded query of the navigation has settled; an erroring query
\* never makes the procedure throw, and the returned props carry the context.
ServerPropsAfterSettle ==
    /\ sPc # "thrown"
    /\ serverCtxs > 0 => \A k \in DOMAIN sPreloaded : Settled(SourceOf(k))
    /\ (sPc = "done" /\ ~HasKey(serverSideProps, "redirect")) =>
          /\ DOMAIN sPreloaded = queries
          /\ \A k \in queries : Settled(SourceOf(k))
          /\ serverCtxs = 1
          /\ ServerContextOf(sResult) # Undefined
          /\ ServerContextOf(sResult).preloadedQueries = sPreloaded

\* C3 witness: props returned with a server context although a query errored
ServerPropsWithErroredQuery ==
    /\ sPc = "done"
    /\ \E k \in DOMAIN sPreloaded : SourceOf(k) = "errored" /\ flushes[k] = "rejected"
    /\ \E k \in DOMAIN sPreloaded : SourceOf(k) = "completed"
    /\ ServerContextOf(sResult) # Undefined

\* C4: the status written for a redirect is the explicit statusCode when one
\* is present, else 308 / 307 for permanent true / false, else 302.
RedirectStatusAsSpecified ==
    \A i \in 1..Len(resWrites) :
        LET r == serverSideProps.redirect
            written == resWrites[i].statusCode
        IN /\ "statusCode" \in DOMAIN r => written = r.statusCode
           /\ ("statusCode" \notin DOMAIN r /\ "permanent" \in DOMAIN r) =>
                 written = (IF r.permanent THEN 308 ELSE 307)
           /\ ("statusCode" \notin DOMAIN r /\ "permanent" \notin DOMAIN r) =>
                 written = 302

\* C4 witness: explicit statusCode 301 written although permanent is true
RedirectExplicitStatusWritten ==
    /\ Len(resWrites) = 1
    /\ HasKey(serverSideProps, "redirect")
    /\ HasKey(serverSideProps.redirect, "permanent")
    /\ serverSideProps.redirect.permanent
    /\ HasKey(serverSideProps.redirect, "statusCode")
    /\ serverSideProps.redirect.statusCode = 301
    /\ resWrites[1].statusCode = 301

\* C5: on a redirect the procedure writes the response once and stops: no
\* environment, no load, no flush, no server context, and the returned props
\* are exactly an empty server context from which no context can be read.
RedirectShortCircuits ==
    HasKey(serverSideProps, "redirect") =>
        /\ serverEnvs = 0
        /\ sLoadCalls = <<>>
        /\ flushCalls = 0
        /\ flushAll = "none"
        /\ serverCtxs = 0
        /\ sPc \in {"gotProps", "done"}
        /\ sPc = "done" =>
              /\ resWrites = <<[statusCode |-> RedirectStatus(serverSideProps.redirect),
                                Location |-> serverSideProps.redirect.destination]>>
              /\ DOMAIN sResult = {"__wired__server__context"}
              /\ sResult["__wired__server__context"].enum = EmptyObject
              /\ ServerContextOf(sResult) = Undefined

\* C5 witness: the procedure has returned after a redirect
RedirectReturned ==
    /\ sPc = "done"
    /\ HasKey(serverSideProps, "redirect")
    /\ Len(resWrites) = 1

\* variables slot k is to be loaded with for the request ctx
SlotVariables(ctx, k) ==
    IF hasVFC THEN customVariablesFromContext(ctx, queries)[k] ELSE ctx.query

\* C14: on the non-redirect server path exactly one load is issued per slot,
\* with that slot's own variables (by default the full route query), and the
\* attached server context holds exactly the resolved variables, the
\* descriptors and, per slot, the handle that slot's load returned.
ServerLoadsOncePerSlot ==
    (sPc = "done" /\ ~IsRedirect(serverSideProps)) =>
        LET context == ServerContextOf(sResult)
            callsOf(k) == { i \in DOMAIN sLoadCalls : sLoadCalls[i].query = Descriptor(k) }
        IN /\ Len(sLoadCalls) = Cardinality(queries)
           /\ \A k \in queries :
                  /\ Cardinality(callsOf(k)) = 1
                  /\ \A i \in callsOf(k) :
                         /\ sLoadCalls[i].variables = SlotVariables(sCtx, k)
                         /\ context.preloadedQueries[k].id = sLoadCalls[i].returned
                         /\ context.preloadedQueries[k].query = Descriptor(k)
                         /\ context.preloadedQueries[k].variables = SlotVariables(sCtx, k)
           /\ DOMAIN context = {"variables", "queries", "preloadedQueries"}
           /\ context.variables = [k \in queries |-> SlotVariables(sCtx, k)]
           /\ context.queries = [k \in queries |-> Descriptor(k)]
           /\ DOMAIN context.preloadedQueries = queries

\* the server path completed for two or more slots with per-slot variables
ServerLoadedSeveralSlots ==
    /\ sPc = "done"
    /\ ~IsRedirect(serverSideProps)
    /\ hasVFC
    /\ Cardinality(queries) >= 2
    /\ Len(sLoadCalls) >= 2

(***************************************************************************)
(* Properties of the client branch and getWiredProps (under SpecClient)    *)
(***************************************************************************)
\* C6: a getClientInitialProps call whose clientSideProps is a redirect does
\* exactly one Router.push to the destination and returns {}; it creates no
\* environment, initiates no load and creates no client context.
ClientRedirectOnlyPushes ==
    [][(navs' = navs + 1 /\ HasKey(clientSideProps', "redirect")) =>
          /\ routerPushes' = routerPushes + 1
          /\ lastPush' = clientSideProps'.redirect.destination
          /\ cProps' = EmptyObject
          /\ clientEnvs' = clientEnvs
          /\ cLoads' = cLoads
          /\ cNextId' = cNextId
          /\ clientCtxs' = clientCtxs]_vars

\* C6 witness: a redirecting client navigation has returned, nothing was loaded
ClientRedirectReturned ==
    /\ navs = 1
    /\ HasKey(clientSideProps, "redirect")
    /\ routerPushes = 1
    /\ lastPush = clientSideProps.redirect.destination
    /\ cProps = EmptyObject
    /\ clientEnvs = 0
    /\ cLoads = 0

\* the preloaded queries a getWiredProps result hands to the component
HandedQueries(result) == [k \in (DOMAIN result[1]) \ {"CSN"} |-> result[1][k]]

\* C7: the preloaded queries getWiredProps hands over are exactly those of
\* the client context when one is present, else exactly the server context's
\* preloadedQueries when one is present, else the initial preloaded queries.
WiredPropsFromOneOrigin ==
    wiredProps # Undefined =>
        LET clientContext ==
                getWiredClientContext(Get(wpPageProps, "__wired__client__context"))
            serverContext ==
                getWiredServerContext(Get(wpPageProps, "__wired__server__context"))
            handed == HandedQueries(wiredProps)
        IN IF clientContext # Undefined THEN handed = clientContext
           ELSE IF serverContext # Undefined THEN handed = serverContext.preloadedQueries
           ELSE handed = Spread(EmptyObject, initialPreloadedQuery)

\* C15 as stated: every load getInitialPreloadedQuery issues is issued against
\* a record cache that already contains the records of the serialized state.
InitialLoadsAgainstRecords ==
    (cPc = "ready" /\ navs = 0) =>
        \A i \in DOMAIN cLoadCalls : cLoadCalls[i].cache = "records"

\* C15: getInitialPreloadedQuery first obtains the client environment from
\* createClientEnvironment and only then issues one store-or-network load per
\* descriptor/variables pair of the serialized state, against that environment;
\* it does not read the records itself, so the loads see exactly the cache
\* createClientEnvironment built (the records only if the caller imports them).
InitialLoadsAfterEnvironment ==
    (cPc = "ready" /\ navs = 0 /\ initialPreloadedQuery # Null) =>
        LET state == getWiredSerializedState(window)
            callsOf(k) == { i \in DOMAIN cLoadCalls : cLoadCalls[i].query = state.queries[k] }
        IN /\ clientEnvs = 1
           /\ clientCache \in {"empty", "records"}
           /\ Len(cLoadCalls) = Cardinality(DOMAIN state.queries)
           /\ DOMAIN initialPreloadedQuery = DOMAIN state.queries
           /\ \A k \in DOMAIN state.queries :
                  /\ Cardinality(callsOf(k)) = 1
                  /\ \A i \in callsOf(k) :
                         /\ cLoadCalls[i].environment = ClientEnvironment
                         /\ cLoadCalls[i].variables = state.variables[k]
                         /\ cLoadCalls[i].fetchPolicy = "store-or-network"
                         /\ cLoadCalls[i].cache = clientCache
                         /\ initialPreloadedQuery[k].id = cLoadCalls[i].returned

\* the serialized state was resolved for two or more slots by an environment
\* that did not import the records
InitialLoadsOnEmptyCache ==
    /\ cPc = "ready"
    /\ navs = 0
    /\ initialPreloadedQuery # Null
    /\ Len(cLoadCalls) >= 2
    /\ clientCache = "empty"

\* C16: when the page props carry neither a client nor a server context and
\* the initial preloaded queries are null, getWiredProps (either variant)
\* returns CSN = false and no preloaded query.
WiredPropsWithoutOrigin ==
    LET noContext ==
            /\ IsNullish(getWiredClientContext(Get(wpPageProps, "__wired__client__context")))
            /\ IsNullish(getWiredServerContext(Get(wpPageProps, "__wired__server__context")))
        empty(props) ==
            /\ props.CSN = FALSE
            /\ \A k \in (DOMAIN props) \ {"CSN"} : IsNullish(props[k])
    IN /\ (wiredProps # Undefined /\ noContext /\ wpInitial = Null)
              => (empty(wiredProps[1]) /\ DOMAIN wiredProps[1] = {"CSN"})
       /\ (wiredPropsSingle # Undefined /\ noContext /\ wpInitial = Null)
              => empty(wiredPropsSingle)

\* getWiredProps ran on hydrated page props with no initial preloaded queries
WiredPropsFromNothing ==
    /\ wiredProps # Undefined
    /\ wpPageProps = HydratedPageProps
    /\ wpInitial = Null
    /\ wiredProps[1] = [k \in {"CSN"} |-> FALSE]

\* C18: when the global slot has not been written, or holds no descriptors, or
\* the code runs on the server, getInitialPreloadedQuery returns null, creates
\* no client environment and issues no load; a slot written later does not
\* change the result already returned.
AbsentStateYieldsNull ==
    [][/\ (/\ cPc = "boot"
           /\ cPc' = "ready"
           /\ \/ window = Undefined
              \/ ~HasKey(window, "__wired__")
              \/ ~HasKey(window["__wired__"], "queries"))
          => /\ initialPreloadedQuery' = Null
             /\ clientEnvs' = clientEnvs
             /\ cLoads' = cLoads
             /\ cLoadCalls' = cLoadCalls
       /\ cPc = "ready" => initialPreloadedQuery' = initialPreloadedQuery]_vars

\* the slot was written with descriptors after null had been returned
SlotWrittenAfterNull ==
    /\ cPc = "ready"
    /\ initialPreloadedQuery = Null
    /\ clientEnvs = 0
    /\ cLoads = 0
    /\ HasKey(window, "__wired__")
    /\ HasKey(window["__wired__"], "queries")
    /\ DOMAIN window["__wired__"].queries # {}

(***************************************************************************)
(* Properties of the mounted instance (under SpecRender)                   *)
(***************************************************************************)
\* a step in which the passive effects of a render are flushed
FlushStep == rPhase = "mounted" /\ pendingEffects /\ ~pendingEffects'
\* a step in which the component function runs (mount or re-render)
RenderStep == rPhase' = "mounted" /\ ~pendingEffects /\ pendingEffects'

\* C8: the detector starts at pending (exposed false); the first update
\* observation moves it to unchanged (exposed false); a later observation of
\* a different variables value moves it to changed (exposed true); within a
\* mount the exposed value never goes from true back to false.
DetectorStateMachine ==
    [][/\ (rPhase = "unmounted" /\ rPhase' = "mounted") =>
              /\ haveVarsChanged' = "pending"
              /\ ~useHaveQueryVariablesChanges(haveVarsChanged')
       /\ (FlushStep /\ detectorDeps = Undefined) =>
              /\ haveVarsChanged = "pending"
              /\ haveVarsChanged' = "false"
              /\ ~useHaveQueryVariablesChanges(haveVarsChanged')
       /\ (FlushStep /\ detectorDeps # Undefined
                     /\ detectorDeps.ref # queryVariables.ref) =>
              /\ haveVarsChanged' = "true"
              /\ useHaveQueryVariablesChanges(haveVarsChanged')
       /\ (rPhase = "mounted" /\ rPhase' = "mounted"
                     /\ useHaveQueryVariablesChanges(haveVarsChanged)) =>
              useHaveQueryVariablesChanges(haveVarsChanged')]_vars

\* C8 witness: the detector of a mounted instance has reached changed and a
\* later update with yet another variables value is being observed
DetectorChanged ==
    /\ rPhase = "mounted"
    /\ haveVarsChanged = "true"
    /\ pendingEffects
    /\ detectorDeps.ref # queryVariables.ref

\* C9: every render wraps the component in the error boundary and the
\* suspense boundary iff props.CSN is true or the detector exposes true.
SuspenseIffCSNOrChanged ==
    [][RenderStep =>
          /\ output'.suspense <=> (rProps'.CSN \/ haveVarsChanged' = "true")
          /\ output'.errorBoundary <=> output'.suspense]_vars

\* C9 witness: a render wrapped although CSN is false
WrappedWithoutCSN ==
    /\ rPhase = "mounted"
    /\ ~rProps.CSN
    /\ haveVarsChanged = "true"
    /\ output.suspense
    /\ output.errorBoundary

\* C10: with CSN false, no render made before the router state first changes
\* after mount has a suspense boundary; once the router state has changed, a
\* render is scheduled until one with a suspense boundary has been made, and
\* the second render after the change at the latest has the suspense boundary.
SuspenseAfterRouterChange ==
    (rPhase = "mounted" /\ ~rProps.CSN) =>
        /\ ~routerChanged => ~output.suspense
        /\ (routerChanged /\ ~output.suspense) =>
              /\ needsRender \/ pendingEffects
              /\ rendersSinceChange < 2

\* C10 witness: CSN false, the router changed, the second render after the
\* change has a suspense boundary
SuspendedAfterRouterChange ==
    /\ rPhase = "mounted"
    /\ ~rProps.CSN
    /\ routerChanged
    /\ rendersSinceChange = 2
    /\ output.suspense

\* the preloaded query handles an element passes to the inner component
PassedIds(element) == IdsOf(PropQueries(element.props))

\* C11: every preloaded query handle the instance obtained (props-carried seed
\* or created by a re-fetch) is disposed exactly once over the life of the
\* instance, and no render of the instance passes a disposed handle to the
\* inner component.
HandlesDisposedOnce ==
    /\ \A i \in DOMAIN disposed : disposed[i] <= 1
    /\ (rPhase = "unmounted" /\ rProps # Undefined)
           => \A i \in DOMAIN disposed : disposed[i] = 1
    /\ rPhase = "mounted" => \A i \in PassedIds(output) : disposed[i] = 0

\* C17 as stated: once a render that observed the variables of a changed router
\* state has committed, the re-fetch with those variables has been issued.
RefetchBeforeCommit ==
    (rPhase = "mounted" /\ queries # {} /\ routerChanged /\ rendersSinceChange >= 1)
        => SameRef(loadedVars, queryVariables)

\* C17: a render issues no load; the re-fetch with the variables a render
\* observed is issued by the passive effects of that render, after it has
\* committed and before the next render of the instance.
RefetchInEffects ==
    [][/\ RenderStep =>
              /\ loadedVars' = loadedVars
              /\ rPhase = "mounted" =>
                     /\ queryReference' = queryReference
                     /\ SameRef(loadedVars, queryVariables)
       /\ FlushStep =>
              /\ loadedVars' = queryVariables
              /\ \A k \in queries :
                     queryReference'[k].variables = queryVariables.vars[k]]_vars

\* the effects of a render made after a router change have re-fetched with the
\* variables of the new router state
RefetchedAfterRouterChange ==
    /\ rPhase = "mounted"
    /\ queries # {}
    /\ routerChanged
    /\ rendersSinceChange >= 1
    /\ ~pendingEffects
    /\ queryVariables.ref = router.id
    /\ SameRef(loadedVars, queryVariables)

\* C19: with the router state held fixed the render/effect cycle quiesces: the
\* effects of a render whose variables have already been loaded (a render
\* caused by the load installing its query reference) issue no further load.
LoadInstallDoesNotReload ==
    [][(FlushStep /\ SameRef(loadedVars, queryVariables))
          => queryReference' = queryReference]_vars

\* a slot's prop and a loader's reference denote the same (possibly absent) query
SameQuery(a, b) == (IsNullish(a) /\ IsNullish(b)) \/ a = b

\* C20: the loader of every slot K is seeded with the props-carried preloaded
\* query of slot K, and every render passes to the inner component, under the
\* name K, the current query reference of K's loader.
SlotPropIsLoaderReference ==
    rPhase = "mounted" =>
        \A k \in queries :
            /\ SameQuery(Get(output.props, k), hooks[k])
            /\ ~loadEffectRan => SameQuery(hooks[k], Get(rProps, k))

(***************************************************************************)
(* Properties of the context channel (under SpecChannel)                   *)
(***************************************************************************)
\* C12: reading the context from the carrier that createWiredServerContext(P)
\* (resp. createWiredClientContext(P)) produced returns P, and enumerating the
\* own keys of that carrier yields nothing.
ContextRoundTrip ==
    /\ (chOrigin.by \in {"server", "client"} /\ chRead.by = chOrigin.by)
           => chRead.result = chOrigin.payload
    /\ (chOrigin.by \in {"server", "client"} /\ chKeys.done) => chKeys.keys = {}

\* a non-empty server payload was attached, read back and the carrier enumerated
ContextReadBack ==
    /\ chOrigin.by = "server"
    /\ chOrigin.payload.preloadedQueries # EmptyObject
    /\ chRead.by = "server"
    /\ chKeys.done

\* C13: reading a context from undefined, from null or from an object that no
\* attach produced returns undefined and raises no error.
ForeignReadIsUndefined ==
    (chOrigin.by \in {"foreign", "copy"} /\ chRead.by # "none")
        => chRead.result = Undefined

\* the client context was read from null
NullCarrierRead ==
    /\ chOrigin.by = "foreign"
    /\ chCarrier = Null
    /\ chRead.by = "client"
====
